---- MODULE Spec2Model ----
(***************************************************************************)
(* Model of src/src/main.js: the event store (IndexedDB object store       *)
(* 'events'), the weather cache, the DAY/NIGHT cycle builder and the       *)
(* navigation state, with the UI handlers that drive them.                 *)
(*                                                                         *)
(* Time is scaled: one tick of `now` stands for a span of epoch            *)
(* milliseconds, DayLen ticks make one UTC calendar day and HourLen ticks  *)
(* one hour of the weather provider's hourly series.                       *)
(*                                                                         *)
(* A JavaScript null/undefined is the empty tuple Null; a present value v  *)
(* is the one-element tuple Some(v).                                       *)
(***************************************************************************)
EXTENDS Integers, Sequences, FiniteSets, TLC

VARIABLES
  events,         \* object store 'events': a set of event records, keyPath id
  weather_cache,  \* object store 'weather_cache': a set of records, keyPath key
  state,          \* the module-level `state`: [currentCycleIdx, cycles]
  now,            \* the clock read by Date.now()
  rendered,       \* what renderCycle shows: the card's cycle, its statistics, the items
  exported,       \* the file written by exportJSON, Null before any export
  pending,        \* handlers suspended at the await before their renderCycle
  inflight,       \* the addEvent call suspended at one of its awaits, or Null
  lastOp          \* history: the store calls the last handler made

vars == <<events, weather_cache, state, now, rendered, exported, pending, inflight, lastOp>>

----------------------------------------------------------------------------
(* Bounds of the model *)

MaxEvents == 2
MaxEnriched == 1
MaxTime == 2
DayLen == 2
HourLen == 1
MaxLog == 3
MaxTs == 3
MaxPending == 1
MaxStatEvents == 3
MaxNumber == 1000
MaxHours == 2

----------------------------------------------------------------------------
(* Values *)

Null == <<>>
Some(v) == <<v>>

Min(S) == CHOOSE x \in S : \A y \in S : x <= y
Max(S) == CHOOSE x \in S : \A y \in S : x >= y
Abs(x) == IF x < 0 THEN 0 - x ELSE x

IdPool == 1..MaxEvents
Times == 1..MaxTime

\* The event types the model exercises, out of the thirteen the handlers write.
Types == {"sleep_start", "sleep_end", "wake"}
WeatherTypes == {"sleep_start", "sleep_end", "wake"}

\* ymd: the UTC calendar day of a timestamp (toISOString().slice(0,10)); the
\* day number stands for the YYYY-MM-DD string, which is one-to-one with it.
ymd(ts) == ts \div DayLen

Ids(S) == {e.id : e \in S}

----------------------------------------------------------------------------
(* Event store reads *)

\* Order of the by_ts index: by ts, then by primary key; the following
\* stable sort by ts keeps it.
Before(a, b) == a.ts < b.ts \/ (a.ts = b.ts /\ a.id < b.id)

RECURSIVE SortByTs(_)
SortByTs(S) ==
  IF S = {} THEN <<>>
  ELSE LET first == CHOOSE e \in S : \A f \in S \ {e} : Before(e, f)
       IN <<first>> \o SortByTs(S \ {first})

getAllEvents(store) == SortByTs(store)

----------------------------------------------------------------------------
(* Cycle builder *)

\* The id of a cycle is a random uuid that nothing reads; the token "uuid"
\* stands for any of them.
Cycle(id, type, startTs, endTs, startEvent, endEvent) ==
  [id |-> id, type |-> type, startTs |-> startTs, endTs |-> endTs,
   startEvent |-> startEvent, endEvent |-> endEvent]

\* sortedEvents.find(e => e.type === t)
FindType(sortedEvents, t) ==
  LET I == {i \in 1..Len(sortedEvents) : sortedEvents[i].type = t}
  IN IF I = {} THEN Null ELSE Some(sortedEvents[Min(I)])

\* The seed phase: phase, startTs and startEventRef before the scan.
Seed(sortedEvents) ==
  LET SeedFrom(firstSleepStart, firstSleepEnd) ==
        IF firstSleepStart # Null
           /\ (firstSleepEnd = Null \/ firstSleepStart[1].ts < firstSleepEnd[1].ts)
        THEN [cycles |-> <<>>, phase |-> "NIGHT",
              startTs |-> Some(firstSleepStart[1].ts), startEventRef |-> firstSleepStart]
        ELSE IF firstSleepEnd # Null
        THEN [cycles |-> <<>>, phase |-> "DAY",
              startTs |-> Some(firstSleepEnd[1].ts), startEventRef |-> firstSleepEnd]
        ELSE [cycles |-> <<>>, phase |-> "DAY",
              startTs |-> Some(sortedEvents[1].ts), startEventRef |-> Null]
  IN SeedFrom(FindType(sortedEvents, "sleep_start"), FindType(sortedEvents, "sleep_end"))

\* The loop body pushing the DAY segment a sleep_end ends while the phase is DAY.
ScanStepStrayCloses(s, e) ==
  IF e.type = "sleep_start" THEN
    IF s.phase = "DAY" THEN
      [cycles |-> IF s.startTs # Null
                  THEN Append(s.cycles, Cycle("uuid", "DAY", s.startTs, Some(e.ts),
                                              s.startEventRef, Some(e)))
                  ELSE s.cycles,
       phase |-> "NIGHT", startTs |-> Some(e.ts), startEventRef |-> Some(e)]
    ELSE
      [cycles |-> Append(s.cycles, Cycle("uuid", "NIGHT", s.startTs, Some(e.ts),
                                         s.startEventRef, Null)),
       phase |-> "NIGHT", startTs |-> Some(e.ts), startEventRef |-> Some(e)]
  ELSE IF e.type = "sleep_end" THEN
    IF s.phase = "NIGHT" THEN
      [cycles |-> Append(s.cycles, Cycle("uuid", "NIGHT", s.startTs, Some(e.ts),
                                         s.startEventRef, Some(e))),
       phase |-> "DAY", startTs |-> Some(e.ts), startEventRef |-> Some(e)]
    ELSE
      [cycles |-> Append(s.cycles, Cycle("uuid", "DAY", s.startTs, Some(e.ts),
                                         s.startEventRef, Some(e))),
       phase |-> "DAY", startTs |-> Some(e.ts), startEventRef |-> Some(e)]
  ELSE s

\* The loop body with a wake event closing the NIGHT as a sleep_end does.
ScanStepWakeCloses(s, e) ==
  IF e.type = "sleep_start" THEN
    IF s.phase = "DAY" THEN
      [cycles |-> IF s.startTs # Null
                  THEN Append(s.cycles, Cycle("uuid", "DAY", s.startTs, Some(e.ts),
                                              s.startEventRef, Some(e)))
                  ELSE s.cycles,
       phase |-> "NIGHT", startTs |-> Some(e.ts), startEventRef |-> Some(e)]
    ELSE
      [cycles |-> Append(s.cycles, Cycle("uuid", "NIGHT", s.startTs, Some(e.ts),
                                         s.startEventRef, Null)),
       phase |-> "NIGHT", startTs |-> Some(e.ts), startEventRef |-> Some(e)]
  ELSE IF e.type \in {"sleep_end", "wake"} THEN
    IF s.phase = "NIGHT" THEN
      [cycles |-> Append(s.cycles, Cycle("uuid", "NIGHT", s.startTs, Some(e.ts),
                                         s.startEventRef, Some(e))),
       phase |-> "DAY", startTs |-> Some(e.ts), startEventRef |-> Some(e)]
    ELSE
      [cycles |-> s.cycles,
       phase |-> "DAY", startTs |-> Some(e.ts), startEventRef |-> Some(e)]
  ELSE s

\* One iteration of the scan loop on event e.
ScanStep(s, e) ==
  IF e.type = "sleep_start" THEN
    IF s.phase = "DAY" THEN
      [cycles |-> IF s.startTs # Null
                  THEN Append(s.cycles, Cycle("uuid", "DAY", s.startTs, Some(e.ts),
                                              s.startEventRef, Some(e)))
                  ELSE s.cycles,
       phase |-> "NIGHT", startTs |-> Some(e.ts), startEventRef |-> Some(e)]
    ELSE
      [cycles |-> Append(s.cycles, Cycle("uuid", "NIGHT", s.startTs, Some(e.ts),
                                         s.startEventRef, Null)),
       phase |-> "NIGHT", startTs |-> Some(e.ts), startEventRef |-> Some(e)]
  ELSE IF e.type = "sleep_end" THEN
    IF s.phase = "NIGHT" THEN
      [cycles |-> Append(s.cycles, Cycle("uuid", "NIGHT", s.startTs, Some(e.ts),
                                         s.startEventRef, Some(e))),
       phase |-> "DAY", startTs |-> Some(e.ts), startEventRef |-> Some(e)]
    ELSE
      [cycles |-> s.cycles,
       phase |-> "DAY", startTs |-> Some(e.ts), startEventRef |-> Some(e)]
  ELSE s

RECURSIVE Scan(_, _, _)
Scan(s, sortedEvents, i) ==
  IF i > Len(sortedEvents) THEN s
  ELSE Scan(ScanStep(s, sortedEvents[i]), sortedEvents, i + 1)

\* The cycle pushed when the log is empty.
\* The virtual cycle closed at the time it opens.
VirtualNowClosed(t) == Cycle("virtual-now", "DAY", Some(t), Some(t), Null, Null)

VirtualNow(t) == Cycle("virtual-now", "DAY", Some(t), Null, Null, Null)

\* buildCyclesFromEvents that closes the last cycle at the time of the call.
buildCyclesClosedNow(sortedEvents, t) ==
  IF Len(sortedEvents) = 0 THEN <<VirtualNow(t)>>
  ELSE LET PushLast(s) ==
             Append(s.cycles, Cycle("uuid", s.phase, s.startTs, Some(t), s.startEventRef, Null))
       IN PushLast(Scan(Seed(sortedEvents), sortedEvents, 1))

\* buildCyclesFromEvents, with the value Date.now() returns during the call.
buildCyclesFromEvents(sortedEvents, t) ==
  IF Len(sortedEvents) = 0 THEN <<VirtualNow(t)>>
  ELSE LET PushLast(s) ==
             Append(s.cycles, Cycle("uuid", s.phase, s.startTs, Null, s.startEventRef, Null))
       IN PushLast(Scan(Seed(sortedEvents), sortedEvents, 1))

----------------------------------------------------------------------------
(* Weather *)

\* What navigator.geolocation can answer: nothing (unsupported, denied or the
\* 8 s timeout) or a position; coordinates are in units of 0.0001 degree.
GeoOutcomes == {Null, Some([latitude |-> 12344, longitude |-> 45676])}

\* +x.toFixed(3): a coordinate rounded to 0.001 degree (here x >= 0).
Round3(x) == (x + 5) \div 10

getLatLon(geo) ==
  IF geo = Null THEN Null
  ELSE Some([lat |-> Round3(geo[1].latitude), lon |-> Round3(geo[1].longitude)])

\* What the fetch of one day can do: reject, answer a non-2xx status, or answer
\* a body with every hour, with the first hour's temperature missing, or with
\* no hourly block at all.
FetchOutcomes == {"throw", "not_ok", "full", "gap", "empty"}

RECURSIVE SortNat(_)
SortNat(S) == IF S = {} THEN <<>> ELSE <<Min(S)>> \o SortNat(S \ {Min(S)})

\* The provider's hour-aligned timestamps of day d, ascending.
HoursOfDay(d) ==
  SortNat({t \in (d * DayLen)..((d + 1) * DayLen - 1) : t % HourLen = 0})

TempAt(h) == 10 + h
HumAt(h) == 50 + h

\* The parsed body of a successful fetch.
FetchJson(d, outcome) ==
  LET hs == HoursOfDay(d)
  IN IF outcome = "empty" THEN [hours |-> <<>>, temps |-> <<>>, hums |-> <<>>]
     ELSE [hours |-> hs,
           temps |-> [i \in 1..Len(hs) |->
                        IF outcome = "gap" /\ i = 1 THEN Null ELSE Some(TempAt(hs[i]))],
           hums |-> [i \in 1..Len(hs) |-> Some(HumAt(hs[i]))]]

CacheKey(dateKey, lat, lon) == <<dateKey, lat, lon>>

CacheGet(cache, key) ==
  IF \E r \in cache : r.key = key
  THEN Some(CHOOSE r \in cache : r.key = key)
  ELSE Null

\* put on an object store: the record replaces the one with its key, if any.
CachePut(cache, rec) == {r \in cache : r.key # rec.key} \cup {rec}

\* getDailyWeatherArrays: [threw, rec, cache, fetched]; fetched tells whether
\* the call reached its fetch.  The extrema and fetchedAt of the record are
\* left out: nothing reads them.  A cached record always has its three arrays,
\* and an array, even an empty one, is truthy: the cached record is returned.
getDailyWeatherArrays(cache, date, lat, lon, outcome) ==
  LET Record(key, json) ==
        [key |-> key, dateKey |-> key[1], lat |-> lat, lon |-> lon,
         hours |-> json.hours, temps |-> json.temps, hums |-> json.hums]
      Fetched(rec) ==
        [threw |-> FALSE, rec |-> Some(rec), cache |-> CachePut(cache, rec),
         fetched |-> TRUE]
      Lookup(key, cached) ==
        IF cached # Null
        THEN [threw |-> FALSE, rec |-> cached, cache |-> cache, fetched |-> FALSE]
        ELSE IF outcome \in {"throw", "not_ok"}
        THEN [threw |-> TRUE, rec |-> Null, cache |-> cache, fetched |-> TRUE]
        ELSE Fetched(Record(key, FetchJson(key[1], outcome)))
      Keyed(key) == Lookup(key, CacheGet(cache, key))
  IN Keyed(CacheKey(ymd(date), lat, lon))

\* The loop of nearestWeatherAtTs from index i on.
RECURSIVE NearestLoop(_, _, _, _, _)
NearestLoop(hours, ts, i, bestIdx, bestDiff) ==
  IF i > Len(hours) THEN bestIdx
  ELSE LET diff == Abs(hours[i] - ts)
       IN IF diff < bestDiff
          THEN NearestLoop(hours, ts, i + 1, i, diff)
          ELSE NearestLoop(hours, ts, i + 1, bestIdx, bestDiff)

\* record.temps[i], undefined (Null) past the end of the array.
At(arr, i) == IF i \in 1..Len(arr) THEN arr[i] ELSE Null

\* nearestWeatherAtTs without the scan: always the first sample of the day.
nearestWeatherFirstSample(record, ts) ==
  IF record = Null \/ Len(record[1].hours) = 0 THEN Null
  ELSE LET Sample(temp, hum) ==
             IF temp = Null \/ hum = Null THEN Null
             ELSE Some([temp |-> temp[1], hum |-> hum[1]])
       IN Sample(At(record[1].temps, 1), At(record[1].hums, 1))

\* nearestWeatherAtTs that, finding no numeric sample at the nearest hour,
\* takes the first hour that has one.
nearestWeatherFallback(record, ts) ==
  IF record = Null \/ Len(record[1].hours) = 0 THEN Null
  ELSE LET Sample(temp, hum) ==
             IF temp = Null \/ hum = Null THEN Null
             ELSE Some([temp |-> temp[1], hum |-> hum[1]])
           SampleAt(bestIdx) ==
             Sample(At(record[1].temps, bestIdx), At(record[1].hums, bestIdx))
           Numeric(hours) == {i \in 1..Len(hours) : SampleAt(i) # Null}
           Fallback(hours, bestIdx) ==
             IF SampleAt(bestIdx) = Null /\ Numeric(hours) # {}
             THEN SampleAt(Min(Numeric(hours))) ELSE SampleAt(bestIdx)
           Nearest(hours) == Fallback(hours, NearestLoop(hours, ts, 2, 1, Abs(hours[1] - ts)))
       IN Nearest(record[1].hours)

nearestWeatherAtTs(record, ts) ==
  IF record = Null \/ Len(record[1].hours) = 0 THEN Null
  ELSE LET Sample(temp, hum) ==
             IF temp = Null \/ hum = Null THEN Null
             ELSE Some([temp |-> temp[1], hum |-> hum[1]])
           SampleAt(bestIdx) ==
             Sample(At(record[1].temps, bestIdx), At(record[1].hums, bestIdx))
           Nearest(hours) == SampleAt(NearestLoop(hours, ts, 2, 1, Abs(hours[1] - ts)))
       IN Nearest(record[1].hours)

\* weatherForEventTs: [threw, w, cache, lookup]; lookup names where it stopped.
weatherForEventTs(cache, ts, geo, outcome) ==
  LET Reading(r, hit) ==
        IF hit = Null
        THEN [threw |-> FALSE, w |-> Null, cache |-> r.cache, lookup |-> "no_sample"]
        ELSE [threw |-> FALSE,
              w |-> Some([temp |-> hit[1].temp, hum |-> hit[1].hum,
                          lat |-> r.rec[1].lat, lon |-> r.rec[1].lon]),
              cache |-> r.cache, lookup |-> "ok"]
      OfDay(r) ==
        IF r.threw
        THEN [threw |-> TRUE, w |-> Null, cache |-> cache, lookup |-> "fetch_failed"]
        ELSE Reading(r, nearestWeatherAtTs(r.rec, ts))
      AtLocation(loc) ==
        IF loc = Null
        THEN [threw |-> FALSE, w |-> Null, cache |-> cache, lookup |-> "no_location"]
        ELSE OfDay(getDailyWeatherArrays(cache, ts, loc[1].lat, loc[1].lon, outcome))
  IN AtLocation(getLatLon(geo))

----------------------------------------------------------------------------
(* Event store writes *)

\* put on the object store 'events': keyed by id, an upsert.
Put(store, rec) == {e \in store : e.id # rec.id} \cup {rec}

\* One call of a store function, as the history records it: the id written,
\* whether the store held it before, and where the weather lookup ended.
Call(fn, id, present, lookup) ==
  [fn |-> fn, id |-> id, present |-> present, lookup |-> lookup]

\* The enrichment both addEvent and updateEvent start with: ev.weather is set
\* only when the lookup returns a reading; a throw is swallowed.
Enrich(ev, cache, geo, outcome) ==
  IF ev.type \in WeatherTypes
  THEN LET Attach(r) ==
             [ev |-> IF ~r.threw /\ r.w # Null THEN [ev EXCEPT !.weather = r.w] ELSE ev,
              cache |-> r.cache, lookup |-> r.lookup]
       IN Attach(weatherForEventTs(cache, ev.ts, geo, outcome))
  ELSE [ev |-> ev, cache |-> cache, lookup |-> "skipped"]

\* addEvent up to its put: { id: uuid(), dateKey, ...ev }, ev = [type, ts,
\* weather, amount, level, duration]; a field the handler leaves out is Null.
\* addEvent's put on a store that keeps one event per timestamp.
addEventPutByTs(store, r, id) ==
  LET Record(e, dateKey) ==
        [id |-> id, dateKey |-> dateKey, type |-> e.type, ts |-> e.ts,
         weather |-> e.weather, amount |-> e.amount, level |-> e.level,
         duration |-> e.duration]
  IN [events |-> {e \in store : e.ts # r.ev.ts} \cup {Record(r.ev, ymd(r.ev.ts))},
      cache |-> r.cache,
      call |-> Call("addEvent", id, id \in Ids(store), r.lookup)]

addEventPut(store, r, id) ==
  LET Record(e, dateKey) ==
        [id |-> id, dateKey |-> dateKey, type |-> e.type, ts |-> e.ts,
         weather |-> e.weather, amount |-> e.amount, level |-> e.level,
         duration |-> e.duration]
  IN [events |-> Put(store, Record(r.ev, ymd(r.ev.ts))), cache |-> r.cache,
      call |-> Call("addEvent", id, id \in Ids(store), r.lookup)]

addEvent(store, cache, ev, id, geo, outcome) ==
  addEventPut(store, Enrich(ev, cache, geo, outcome), id)

\* updateEvent: { ...ev, dateKey }, ev a whole event record.
updateEvent(store, cache, ev, geo, outcome) ==
  LET Record(e, dateKey) == [e EXCEPT !.dateKey = dateKey]
      Store(r) ==
        [events |-> Put(store, Record(r.ev, ymd(r.ev.ts))), cache |-> r.cache,
         call |-> Call("updateEvent", ev.id, ev.id \in Ids(store), r.lookup)]
  IN Store(Enrich(ev, cache, geo, outcome))

\* deleteEvent that takes along every event filed under the same day.
deleteEventSameDay(store, id) ==
  {e \in store : e.id # id /\ e.dateKey \notin {d.dateKey : d \in {x \in store : x.id = id}}}

\* deleteEvent, and tx.store.delete of the cycle card: no error when absent.
deleteEvent(store, id) == {e \in store : e.id # id}

DeleteCall(store, id) == Call("deleteEvent", id, id \in Ids(store), "skipped")

\* eventsBetween: IDBKeyRange.bound(startTs, endTs) throws a DataError when
\* startTs > endTs; otherwise the events of the closed range, by ts.
eventsBetween(store, startTs, endTs) ==
  IF startTs > endTs THEN [threw |-> TRUE, out |-> <<>>]
  ELSE [threw |-> FALSE,
        out |-> SortByTs({e \in store : startTs <= e.ts /\ e.ts <= endTs})]

----------------------------------------------------------------------------
(* Rendering and navigation state *)

\* refreshCycles that keeps the cached list.
refreshCyclesStale(store, st, t) == st

\* refreshCycles: state.cycles is replaced, the index is left alone.
refreshCycles(store, st, t) ==
  [st EXCEPT !.cycles = buildCyclesFromEvents(getAllEvents(store), t)]

\* Step 2 of renderCycle: the index brought back into the list.
ClampIdx(i, n) == IF i < 0 THEN 0 ELSE IF i >= n THEN n - 1 ELSE i

\* typeof v === 'number', for an optional field: a present value is the
\* one-element tuple of a number; a string is a tuple <<"string", text>>.
IsNumber(v) == Len(v) = 1

\* evs.filter(e => e.type === type).length
CountType(evs, type) == Cardinality({i \in 1..Len(evs) : evs[i].type = type})

\* The reduce of waterMl over evs from index i on.
RECURSIVE SumWater(_, _)
SumWater(evs, i) ==
  IF i > Len(evs) THEN 0
  ELSE (IF evs[i].type = "water" /\ IsNumber(evs[i].amount) THEN evs[i].amount[1] ELSE 0)
       + SumWater(evs, i + 1)

\* calcCycleStats that reports the wake count for every cycle.
calcCycleStatsWakeAlways(store, cycle, t) ==
  LET Stats(evs) ==
        IF evs.threw THEN Null
        ELSE Some([waterMl |-> SumWater(evs.out, 1),
                   urinate |-> CountType(evs.out, "urinate"),
                   wake |-> Some(CountType(evs.out, "wake")),
                   foodCnt |-> IF cycle.type = "DAY"
                               THEN Some(CountType(evs.out, "food")) ELSE Null,
                   exercised |-> IF cycle.type = "DAY"
                                 THEN Some(CountType(evs.out, "exercise") > 0) ELSE Null,
                   events |-> evs.out])
  IN Stats(eventsBetween(store, cycle.startTs[1],
                         IF cycle.endTs # Null THEN cycle.endTs[1] ELSE t))

\* calcCycleStats that adds up every amount in the range, whatever the type.
calcCycleStatsAnyAmount(store, cycle, t) ==
  LET Amounts(evs) ==
        {i \in 1..Len(evs) : evs[i].type \in {"water", "isotonic"} /\ IsNumber(evs[i].amount)}
      Stats(evs) ==
        IF evs.threw THEN Null
        ELSE Some([waterMl |-> SumWater([i \in 1..Len(evs.out) |->
                                            [evs.out[i] EXCEPT !.type =
                                               IF i \in Amounts(evs.out)
                                               THEN "water" ELSE evs.out[i].type]], 1),
                   urinate |-> CountType(evs.out, "urinate"),
                   wake |-> IF cycle.type = "NIGHT"
                            THEN Some(CountType(evs.out, "wake")) ELSE Null,
                   foodCnt |-> IF cycle.type = "DAY"
                               THEN Some(CountType(evs.out, "food")) ELSE Null,
                   exercised |-> IF cycle.type = "DAY"
                                 THEN Some(CountType(evs.out, "exercise") > 0) ELSE Null,
                   events |-> evs.out])
  IN Stats(eventsBetween(store, cycle.startTs[1],
                         IF cycle.endTs # Null THEN cycle.endTs[1] ELSE t))

\* calcCycleStats at time t: Null when the range query throws, else the
\* statistics; undefined is Null.  The glicemia and sol figures are left out:
\* the model has no event of these types.
calcCycleStats(store, cycle, t) ==
  LET Stats(evs) ==
        IF evs.threw THEN Null
        ELSE Some([waterMl |-> SumWater(evs.out, 1),
                   urinate |-> CountType(evs.out, "urinate"),
                   wake |-> IF cycle.type = "NIGHT"
                            THEN Some(CountType(evs.out, "wake")) ELSE Null,
                   foodCnt |-> IF cycle.type = "DAY"
                               THEN Some(CountType(evs.out, "food")) ELSE Null,
                   exercised |-> IF cycle.type = "DAY"
                                 THEN Some(CountType(evs.out, "exercise") > 0) ELSE Null,
                   events |-> evs.out])
  IN Stats(eventsBetween(store, cycle.startTs[1],
                         IF cycle.endTs # Null THEN cycle.endTs[1] ELSE t))

\* renderCycle: [state, rendered]. The list is emptied before calcCycleStats
\* runs its range query, so a throw there leaves an empty list.
renderCycle(store, st, t) ==
  LET List(cycle, stats) ==
        IF stats = Null THEN [card |-> Null, items |-> <<>>, stats |-> Null]
        ELSE [card |-> Some(cycle), items |-> stats[1].events, stats |-> stats]
      Card(cycle) == List(cycle, calcCycleStats(store, cycle, t))
      Show(refreshed, i) ==
        [state |-> [refreshed EXCEPT !.currentCycleIdx = i],
         rendered |-> Card(refreshed.cycles[i + 1])]
      Clamped(refreshed) ==
        Show(refreshed, ClampIdx(refreshed.currentCycleIdx, Len(refreshed.cycles)))
  IN Clamped(refreshCycles(store, st, t))

\* isCurrentlyInNightCycle once refreshCycles has answered, at time t.
isCurrentlyInNightCycle(cycles, t) ==
  IF Len(cycles) = 0 THEN FALSE
  ELSE LET currentCycle == cycles[Len(cycles)]
       IN /\ currentCycle.type = "NIGHT"
          /\ \/ currentCycle.endTs = Null
             \/ (t >= currentCycle.startTs[1] /\ t <= currentCycle.endTs[1])

----------------------------------------------------------------------------
(* Handlers.  Each action is one handler run to its end, its renderCycle     *)
(* included (the caller serializes user actions).  A handler takes the set E *)
(* of answers the location and weather providers may give while it runs.     *)

\* uuid(): an id no record in sight carries, out of a pool of cap ids.
FreshIds(cap) ==
  (1..cap) \ (Ids(events)
            \cup {rendered.items[i].id : i \in 1..Len(rendered.items)}
            \cup (IF exported = Null THEN {} ELSE Ids(exported[1].events)))

\* The providers' answers: no position (the fetch is then never made), or a
\* position and a fetch outcome.
Denied == {[geo |-> Null, outcome |-> "throw"]}
Envs ==
  Denied \cup {[geo |-> g, outcome |-> o] : g \in GeoOutcomes \ {Null}, o \in FetchOutcomes}

\* Only the three enriched types consult the providers.
EnvsFor(type, E) == IF type \in WeatherTypes THEN E ELSE Denied

\* What promptTime returns: null (cancelled or unparsable) or a timestamp.
PromptResults == {Null} \cup {Some(t) : t \in 0..MaxTime}

\* `if (!newTs)`: null and 0 are both falsy.
Falsy(v) == v = Null \/ v[1] = 0

Init ==
  /\ events = {}
  /\ weather_cache = {}
  /\ now = 1
  /\ state = [currentCycleIdx |-> 0, cycles |-> <<VirtualNow(1)>>]
  /\ rendered = [card |-> Some(VirtualNow(1)), items |-> <<>>,
                 stats |-> calcCycleStats({}, VirtualNow(1), 1)]
  /\ exported = Null
  /\ pending = 0
  /\ inflight = Null
  /\ lastOp = <<>>

\* Time passes between two user actions.
Tick ==
  /\ now < MaxTime
  /\ now' = now + 1
  /\ lastOp' = <<>>
  /\ UNCHANGED <<events, weather_cache, state, rendered, exported, pending, inflight>>

\* A handler's `await addEvent({ type, ..., ts })` as a whole: enrichment,
\* put, renderCycle; fields = [amount, level, duration].
AddFieldsAndRender(st, type, fields, E, cap) ==
  /\ Cardinality(events) < cap
  /\ \E id \in FreshIds(cap), env \in EnvsFor(type, E) :
       \E a \in {addEvent(events, weather_cache,
                          [type |-> type, ts |-> now, weather |-> Null,
                           amount |-> fields.amount, level |-> fields.level,
                           duration |-> fields.duration], id,
                          env.geo, env.outcome)} :
         \E r \in {renderCycle(a.events, st, now)} :
           /\ events' = a.events
           /\ weather_cache' = a.cache
           /\ state' = r.state
           /\ rendered' = r.rendered
           /\ lastOp' = <<a.call>>
  /\ UNCHANGED <<now, exported, pending, inflight>>

\* `await addEvent({ type, amount, ts })`
AddAmountAndRender(st, type, amount, E, cap) ==
  AddFieldsAndRender(st, type, [amount |-> amount, level |-> Null, duration |-> Null],
                     E, cap)

\* `await addEvent({ type, ts })`: an event without an amount.
AddAndRender(st, type, E, cap) == AddAmountAndRender(st, type, Null, E, cap)

\* The water-510 and water-700 buttons.
QuickWater(cap) ==
  \E amount \in {510, 700} : AddAmountAndRender(state, "water", Some(amount), Denied, cap)

\* Number.MAX_VALUE stands at MaxNumber; what lies beyond is Infinity.
Infinity == MaxNumber + 1

\* parseInt of a string of digits, given as the integer it writes.
ParseInt(digits) == IF digits > MaxNumber THEN Infinity ELSE digits

\* The isotonic button: the digits typed into the prompt, refused below 100 ml.
IsotonicAmounts == {50, 500}
QuickIsotonic(typed, cap) ==
  \E amount \in {ParseInt(digits) : digits \in typed} :
    IF amount >= 100
    THEN AddAmountAndRender(state, "isotonic", Some(amount), Denied, cap)
    ELSE /\ lastOp' = <<>>
         /\ UNCHANGED <<events, weather_cache, state, now, rendered, exported, pending, inflight>>

\* A quick-action button of one of the given types.
QuickAdd(types, E, cap) == \E type \in types : AddAndRender(state, type, E, cap)

\* btn-now-start: refused while the latest cycle is a NIGHT.
SleepStartNow(E, cap) ==
  \E st \in {refreshCycles(events, state, now)} :
    IF isCurrentlyInNightCycle(st.cycles, now)
    THEN /\ state' = st
         /\ lastOp' = <<>>
         /\ UNCHANGED <<events, weather_cache, now, rendered, exported, pending, inflight>>
    ELSE AddAndRender(st, "sleep_start", E, cap)

\* btn-now-end: refused unless the latest cycle is a NIGHT.
SleepEndNow(E, cap) ==
  \E st \in {refreshCycles(events, state, now)} :
    IF ~isCurrentlyInNightCycle(st.cycles, now)
    THEN /\ state' = st
         /\ lastOp' = <<>>
         /\ UNCHANGED <<events, weather_cache, now, rendered, exported, pending, inflight>>
    ELSE AddAndRender(st, "sleep_end", E, cap)

\* The Editar button of a listed event (the types modelled edit the time
\* only); a falsy prompt result returns at once.
EditEvent(E) ==
  /\ \E i \in 1..Len(rendered.items), newTs \in PromptResults :
       \E env \in EnvsFor(rendered.items[i].type, E) :
         /\ rendered.items[i].type \notin {"glicemia", "sol", "alcool", "isotonic"}
         /\ IF Falsy(newTs)
            THEN /\ lastOp' = <<>>
                 /\ UNCHANGED <<events, weather_cache, state, rendered>>
            ELSE \E u \in {updateEvent(events, weather_cache,
                                        [rendered.items[i] EXCEPT !.ts = newTs[1]],
                                        env.geo, env.outcome)} :
                   \E r \in {renderCycle(u.events, state, now)} :
                     /\ events' = u.events
                     /\ weather_cache' = u.cache
                     /\ state' = r.state
                     /\ rendered' = r.rendered
                     /\ lastOp' = <<u.call>>
  /\ UNCHANGED <<now, exported, pending, inflight>>

\* The Apagar button of a listed event, confirmed.
DeleteEvent ==
  /\ \E i \in 1..Len(rendered.items) :
       \E store \in {deleteEvent(events, rendered.items[i].id)} :
         \E r \in {renderCycle(store, state, now)} :
           /\ events' = store
           /\ state' = r.state
           /\ rendered' = r.rendered
           /\ lastOp' = <<DeleteCall(events, rendered.items[i].id)>>
  /\ UNCHANGED <<weather_cache, now, exported, pending, inflight>>

\* One optional updateEvent of the cycle card's Editar handler, applied to the
\* store, the cache and the calls made so far.
EditBoundary(acc, boundary, newTs, env) ==
  IF boundary # Null /\ ~Falsy(newTs)
  THEN LET Updated(u) ==
             [events |-> u.events, cache |-> u.cache, calls |-> Append(acc.calls, u.call)]
       IN Updated(updateEvent(acc.events, acc.cache,
                              [boundary[1] EXCEPT !.ts = newTs[1]], env.geo, env.outcome))
  ELSE acc

\* The prompts of the cycle card's Editar handler: none for a missing boundary.
PromptsFor(boundary) == IF boundary = Null THEN {Null} ELSE PromptResults

\* The Editar button of the cycle card: the start event, then the end event,
\* then renderCycle.  One answer of the providers serves both updates.
EditCycle(E) ==
  /\ rendered.card # Null
  /\ \E newStart \in PromptsFor(rendered.card[1].startEvent),
          newEnd \in PromptsFor(rendered.card[1].endEvent), env \in E :
       \E first \in {EditBoundary([events |-> events, cache |-> weather_cache,
                                    calls |-> <<>>],
                                   rendered.card[1].startEvent, newStart, env)} :
         \E second \in {EditBoundary(first, rendered.card[1].endEvent, newEnd, env)} :
           \E r \in {renderCycle(second.events, state, now)} :
             /\ events' = second.events
             /\ weather_cache' = second.cache
             /\ state' = r.state
             /\ rendered' = r.rendered
             /\ lastOp' = second.calls
  /\ UNCHANGED <<now, exported, pending, inflight>>

\* The store after the cycle card's Apagar handler: both boundary events go.
DeleteBoundaries(store, cycle) ==
  LET afterStart == IF cycle.startEvent # Null
                    THEN deleteEvent(store, cycle.startEvent[1].id) ELSE store
  IN IF cycle.endEvent # Null
     THEN deleteEvent(afterStart, cycle.endEvent[1].id) ELSE afterStart

\* The Apagar button of the cycle card, confirmed.
DeleteCycle ==
  /\ rendered.card # Null
  /\ \E store \in {DeleteBoundaries(events, rendered.card[1])} :
       \E r \in {renderCycle(store, state, now)} :
         /\ events' = store
         /\ state' = r.state
         /\ rendered' = r.rendered
  /\ lastOp' = <<>>
  /\ UNCHANGED <<weather_cache, now, exported, pending, inflight>>

\* The index each navigation button sets before it calls renderCycle.
TodayIdx(st) == Max({0, Len(st.cycles) - 1})
\* Prev that wraps around from the first cycle to the last.
PrevIdxWrap(st) ==
  IF st.currentCycleIdx = 0 THEN Len(st.cycles) - 1 ELSE st.currentCycleIdx - 1

PrevIdx(st) == Max({0, st.currentCycleIdx - 1})
NextIdx(st) == Min({Len(st.cycles) - 1, st.currentCycleIdx + 1})

\* A navigation button: the index is set, then renderCycle runs.
Navigate(st, i) ==
  /\ \E r \in {renderCycle(events, [st EXCEPT !.currentCycleIdx = i], now)} :
       /\ state' = r.state
       /\ rendered' = r.rendered
  /\ lastOp' = <<>>
  /\ UNCHANGED <<events, weather_cache, now, exported, pending, inflight>>

\* btn-today: refreshCycles first, then the last cycle is selected.
Today == \E st \in {refreshCycles(events, state, now)} : Navigate(st, TodayIdx(st))

\* btn-prev
Prev == Navigate(state, PrevIdx(state))

\* btn-next
NextCycle == Navigate(state, NextIdx(state))

\* JSON.stringify of a number: a non-finite one is written as null.
JSONNumber(n) == IF n = Infinity THEN Null ELSE Some(n)

\* JSON.stringify followed by JSON.parse of an event: an absent field stays
\* absent, a number that is not finite comes back as null.
JSONEvent(e) ==
  [e EXCEPT !.amount = IF IsNumber(e.amount) THEN JSONNumber(e.amount[1]) ELSE e.amount]

\* exportJSON: the collections as the downloaded file gives them back to
\* JSON.parse (settings is always empty); `store` keeps the events as they
\* were in the store, for history.
ExportJSON ==
  /\ exported' = Some([events |-> {JSONEvent(e) : e \in events},
                       weather_cache |-> weather_cache,
                       store |-> events])
  /\ lastOp' = <<>>
  /\ UNCHANGED <<events, weather_cache, state, now, rendered, pending, inflight>>

\* put of every record of a collection in turn.
PutAll(store, recs) == {e \in store : e.id \notin Ids(recs)} \cup recs
CachePutAll(cache, recs) ==
  {r \in cache : r.key \notin {x.key : x \in recs}} \cup recs

\* importJSON of the parsed file `data`, then renderCycle.
ImportJSON(data) ==
  /\ \E store \in {PutAll(events, data.events)} :
       \E r \in {renderCycle(store, state, now)} :
         /\ events' = store
         /\ state' = r.state
         /\ rendered' = r.rendered
  /\ weather_cache' = CachePutAll(weather_cache, data.weather_cache)
  /\ lastOp' = <<>>
  /\ UNCHANGED <<now, exported, pending, inflight>>

\* The records of the files offered to importJSON, which stores whatever
\* JSON.parse returns: a wake event filed under the day of its ts, as an
\* export writes it, or under the day after, as only a file written by hand
\* or by another program has it.
ImportRecords ==
  {[id |-> id, dateKey |-> ymd(ts) + k, type |-> "wake", ts |-> ts, weather |-> Null,
    amount |-> Null, level |-> Null, duration |-> Null] :
     id \in IdPool, ts \in Times, k \in {0, 1}}

\* The files offered to importJSON, holding no event or one.
ImportFiles ==
  {[events |-> {}, weather_cache |-> {}]}
    \cup {[events |-> {e}, weather_cache |-> {}] : e \in ImportRecords}

----------------------------------------------------------------------------
\* The prompts that ask for a number: glicemia, sol, isotonic.

\* A prompt answer is null (cancelled) or a text, a sequence of characters.
DigitChars == {"0", "1", "2", "3", "4", "5", "6", "7", "8", "9"}
DigitValue(c) ==
  CASE c = "0" -> 0 [] c = "1" -> 1 [] c = "2" -> 2 [] c = "3" -> 3 [] c = "4" -> 4
    [] c = "5" -> 5 [] c = "6" -> 6 [] c = "7" -> 7 [] c = "8" -> 8 [] c = "9" -> 9

\* text.trim()
RECURSIVE Trim(_)
Trim(text) ==
  IF text = <<>> THEN <<>>
  ELSE IF Head(text) = " " THEN Trim(Tail(text))
  ELSE IF text[Len(text)] = " " THEN Trim(SubSeq(text, 1, Len(text) - 1))
  ELSE text

\* text.trim().replace(/[^\d]/g, '')
Clean(text) ==
  LET IsDigit(c) == c \in DigitChars IN SelectSeq(Trim(text), IsDigit)

\* The integer a non-empty string of digits writes.
RECURSIVE NumberOf(_)
NumberOf(digits) ==
  IF digits = <<>> THEN 0
  ELSE 10 * NumberOf(SubSeq(digits, 1, Len(digits) - 1)) + DigitValue(digits[Len(digits)])

\* A glicemia level that one digit is enough for.
ValidLevelOneDigit(clean) == clean # <<>> /\ Len(clean) >= 1 /\ Len(clean) <= 3

\* cleanLevel && cleanLevel.length >= 2 && cleanLevel.length <= 3
ValidLevel(clean) == clean # <<>> /\ Len(clean) >= 2 /\ Len(clean) <= 3

\* cleanDuration && parseInt(cleanDuration) >= 10
ValidDuration(clean) == clean # <<>> /\ ParseInt(NumberOf(clean)) >= 10

\* cleanAmount && parseInt(cleanAmount) >= 100
ValidAmount(clean) == clean # <<>> /\ ParseInt(NumberOf(clean)) >= 100

\* What an answer to the prompt of a type yields: "cancel" for a null or blank
\* answer (a silent return), "alert" for a refused one, or "store" with the
\* value (the cleaned string for level and duration, the parsed number for
\* amount).
PromptedTypes == {"glicemia", "sol", "isotonic"}
Validated(type, answer) ==
  IF answer = Null \/ answer[1] = <<>> \/ Trim(answer[1]) = <<>>
  THEN [verdict |-> "cancel", value |-> Null]
  ELSE LET Refused == [verdict |-> "alert", value |-> Null]
           Checked(clean) ==
             CASE type = "glicemia" ->
                    IF ValidLevel(clean)
                    THEN [verdict |-> "store", value |-> <<"string", clean>>]
                    ELSE Refused
               [] type = "sol" ->
                    IF ValidDuration(clean)
                    THEN [verdict |-> "store", value |-> <<"string", clean>>]
                    ELSE Refused
               [] type = "isotonic" ->
                    IF ValidAmount(clean)
                    THEN [verdict |-> "store", value |-> <<ParseInt(NumberOf(clean))>>]
                    ELSE Refused
       IN Checked(Clean(answer[1]))

\* The field the value of a prompted type goes to.
WithValue(e, value) ==
  CASE e.type = "glicemia" -> [e EXCEPT !.level = value]
    [] e.type = "sol" -> [e EXCEPT !.duration = value]
    [] e.type = "isotonic" -> [e EXCEPT !.amount = value]

\* A handler that returns before any store call; a refusal shows an alert.
Returned(verdict) ==
  /\ lastOp' = IF verdict = "alert" THEN <<Call("alert", 0, FALSE, "none")>> ELSE <<>>
  /\ UNCHANGED <<events, weather_cache, state, now, rendered, exported, pending, inflight>>

\* The glicemia, sol and isotonic buttons.
QuickPrompted(types, answers, cap) ==
  \E type \in types, answer \in answers :
    \E v \in {Validated(type, answer)} :
      IF v.verdict # "store"
      THEN Returned(v.verdict)
      ELSE AddFieldsAndRender(state, type,
                              WithValue([type |-> type, amount |-> Null,
                                         level |-> Null, duration |-> Null],
                                        v.value),
                              Denied, cap)

\* The Editar button of a listed glicemia, sol or isotonic event: the time
\* prompt, then the value prompt.
EditPrompted(types, answers) ==
  \E i \in 1..Len(rendered.items), newTs \in PromptResults, answer \in answers :
    /\ rendered.items[i].type \in types
    /\ \E v \in {IF Falsy(newTs) THEN [verdict |-> "cancel", value |-> Null]
                  ELSE Validated(rendered.items[i].type, answer)} :
         IF v.verdict # "store"
         THEN Returned(v.verdict)
         ELSE \E u \in {updateEvent(events, weather_cache,
                                     WithValue([rendered.items[i] EXCEPT !.ts = newTs[1]],
                                               v.value),
                                     Null, "throw")} :
                \E r \in {renderCycle(u.events, state, now)} :
                  /\ events' = u.events
                  /\ weather_cache' = u.cache
                  /\ state' = r.state
                  /\ rendered' = r.rendered
                  /\ lastOp' = <<u.call>>
                  /\ UNCHANGED <<now, exported, pending, inflight>>

\* The handlers with the location permission denied throughout.
Next ==
  \/ Tick
  \/ QuickAdd({"wake"}, Denied, MaxEvents)
  \/ SleepStartNow(Denied, MaxEvents)
  \/ SleepEndNow(Denied, MaxEvents)
  \/ EditEvent(Denied)
  \/ DeleteEvent
  \/ EditCycle(Denied)
  \/ DeleteCycle
  \/ Today
  \/ Prev
  \/ NextCycle
  \/ \E data \in ImportFiles : ImportJSON(data)

Spec == Init /\ [][Next]_vars

----------------------------------------------------------------------------
(* The handlers that write enriched events, with every answer the location   *)
(* and weather providers can give, on a store of at most MaxEnriched events. *)

NextWeather ==
  \/ Tick
  \/ QuickAdd({"wake"}, Envs, MaxEnriched)
  \/ SleepStartNow(Envs, MaxEnriched)
  \/ SleepEndNow(Envs, MaxEnriched)
  \/ EditEvent(Envs)

SpecWeather == Init /\ [][NextWeather]_vars

----------------------------------------------------------------------------
(* The cycle builder alone: refreshCycles on every stored log of at most     *)
(* MaxLog events with timestamps up to MaxTs.                                *)

LogRecord(id, type, ts) ==
  [id |-> id, dateKey |-> ymd(ts), type |-> type, ts |-> ts, weather |-> Null,
   amount |-> Null, level |-> Null, duration |-> Null]

\* Every store of at most MaxLog events: each id is absent or carries an event.
Logs ==
  LET Slot == {Null} \cup {<<type, ts>> : type \in Types, ts \in 1..MaxTs}
  IN {{LogRecord(id, f[id][1], f[id][2]) : id \in {j \in 1..MaxLog : f[j] # Null}} :
        f \in [1..MaxLog -> Slot]}

InitBuild ==
  /\ events \in Logs
  /\ weather_cache = {}
  /\ now \in 1..MaxTs
  /\ state = [currentCycleIdx |-> 0, cycles |-> <<>>]
  /\ rendered = [card |-> Null, items |-> <<>>, stats |-> Null]
  /\ exported = Null
  /\ pending = 0
  /\ inflight = Null
  /\ lastOp = <<>>

RefreshCycles ==
  /\ state' = refreshCycles(events, state, now)
  /\ UNCHANGED <<events, weather_cache, now, rendered, exported, pending, inflight, lastOp>>

NextBuild == RefreshCycles

SpecBuild == InitBuild /\ [][NextBuild]_vars

----------------------------------------------------------------------------
(* Handlers interleaved at an await.  The Apagar handler of a listed event   *)
(* awaits deleteEvent and then renderCycle; until renderCycle has rebuilt    *)
(* the list the old items and their buttons stay on the page, and a click on *)
(* one starts another handler.                                               *)

\* The Apagar handler up to the end of deleteEvent.
DeleteEventAwait ==
  /\ pending < MaxPending
  /\ \E i \in 1..Len(rendered.items) :
       /\ events' = deleteEvent(events, rendered.items[i].id)
       /\ lastOp' = <<DeleteCall(events, rendered.items[i].id)>>
  /\ pending' = pending + 1
  /\ UNCHANGED <<weather_cache, state, now, rendered, exported, inflight>>

\* The rest of a suspended handler: its renderCycle.
ResumeRender ==
  /\ pending > 0
  /\ \E r \in {renderCycle(events, state, now)} :
       /\ state' = r.state
       /\ rendered' = r.rendered
  /\ pending' = pending - 1
  /\ lastOp' = <<>>
  /\ UNCHANGED <<events, weather_cache, now, exported, inflight>>

NextAsync ==
  \/ Tick
  \/ QuickAdd({"wake"}, Denied, MaxEvents)
  \/ SleepStartNow(Denied, MaxEvents)
  \/ SleepEndNow(Denied, MaxEvents)
  \/ EditEvent(Denied)
  \/ DeleteEventAwait
  \/ DeleteEvent
  \/ ResumeRender

SpecAsync == Init /\ [][NextAsync]_vars

----------------------------------------------------------------------------
(* The statistics of the shown cycle.  SpecStats has the buttons that write   *)
(* the counted events, the sleep buttons and navigation; SpecWater has the   *)
(* buttons that write an amount, Dormi agora, navigation and the import of a *)
(* file holding a water event whose amount is missing or a string.           *)

\* The water events of the imported files, dated MaxTime: ahead of the clock
\* until it gets there.
StatRecords ==
  {[id |-> 1, dateKey |-> ymd(MaxTime), type |-> "water", ts |-> MaxTime,
    weather |-> Null, amount |-> amount, level |-> Null, duration |-> Null] : amount \in {Null, <<"string", "510">>}}

StatFiles == {[events |-> {e}, weather_cache |-> {}] : e \in StatRecords}

NextStats ==
  \/ Tick
  \/ QuickAdd({"wake", "food", "exercise"}, Denied, MaxEvents)
  \/ SleepStartNow(Denied, MaxEvents)
  \/ SleepEndNow(Denied, MaxEvents)
  \/ Today
  \/ Prev
  \/ NextCycle

SpecStats == Init /\ [][NextStats]_vars

NextWater ==
  \/ Tick
  \/ QuickWater(MaxStatEvents)
  \/ QuickIsotonic(IsotonicAmounts, MaxStatEvents)
  \/ SleepStartNow(Denied, MaxStatEvents)
  \/ Today
  \/ Prev
  \/ NextCycle
  \/ \E data \in StatFiles : ImportJSON(data)

SpecWater == Init /\ [][NextWater]_vars

----------------------------------------------------------------------------
(* Export and import.  The page writes events, the store is exported, the    *)
(* page is opened where no database exists yet (db() then creates the empty  *)
(* stores), and the downloaded file is imported.                             *)

\* The digits typed for an isotonic amount: 500, or more digits than a
\* number holds.
LongAmounts == {500, 2 * MaxNumber}

\* The page opened on a new database.
OpenEmpty ==
  /\ exported # Null
  /\ events # {}
  /\ events' = {}
  /\ weather_cache' = {}
  /\ \E r \in {renderCycle({}, [currentCycleIdx |-> 0, cycles |-> <<>>], now)} :
       /\ state' = r.state
       /\ rendered' = r.rendered
  /\ lastOp' = <<>>
  /\ UNCHANGED <<now, exported, pending, inflight>>

\* importJSON of the file last exported.
ImportExported ==
  /\ exported # Null
  /\ ImportJSON([events |-> exported[1].events,
                 weather_cache |-> exported[1].weather_cache])

NextRoundTrip ==
  \/ Tick
  \/ QuickAdd({"wake"}, Denied, MaxEvents)
  \/ QuickIsotonic(LongAmounts, MaxEvents)
  \/ SleepStartNow(Envs, MaxEvents)
  \/ ExportJSON
  \/ OpenEmpty
  \/ ImportExported

SpecRoundTrip == Init /\ [][NextRoundTrip]_vars

----------------------------------------------------------------------------
(* addEvent await by await.  A call waits for getLatLon, then, if the day is *)
(* not cached, for the fetch of getDailyWeatherArrays, and only then reaches *)
(* its put.  The providers answer when they choose to, or never; the page's  *)
(* own steps, the 8 s geolocation timeout among them, are taken once they    *)
(* can be.                                                                   *)

\* The event object a suspended call carries.
EventOf(call) ==
  [type |-> call.type, ts |-> call.ts, weather |-> Null, amount |-> Null,
   level |-> Null, duration |-> Null]

\* addEvent called by a quick-action button: up to `await weatherForEventTs`.
\* `r` is what the enrichment has come to, known once the lookup has ended.
StartAppend(types, cap) ==
  /\ inflight = Null
  /\ Cardinality(events) < cap
  /\ \E type \in types, id \in FreshIds(cap) :
       inflight' = Some([type |-> type, ts |-> now, id |-> id,
                         pc |-> IF type \in WeatherTypes THEN "getLatLon" ELSE "put",
                         geo |-> Null,
                         r |-> Enrich([type |-> type, ts |-> now, weather |-> Null,
                                       amount |-> Null, level |-> Null,
                                       duration |-> Null],
                                      weather_cache, Null, "throw")])
  /\ lastOp' = <<>>
  /\ UNCHANGED <<events, weather_cache, state, now, rendered, exported, pending>>

\* The day of the suspended call is cached for the position geo.
DayCached(call, geo) ==
  /\ geo # Null
  /\ CacheGet(weather_cache,
              CacheKey(ymd(call.ts), getLatLon(geo)[1].lat, getLatLon(geo)[1].lon)) # Null

\* navigator.geolocation calls back: a position, or an error.  Without a
\* position, or with the day cached, the lookup ends here and the call goes
\* on to its put; otherwise it issues the fetch.
GeoAnswers ==
  /\ inflight # Null
  /\ inflight[1].pc = "getLatLon"
  /\ \E geo \in GeoOutcomes :
       inflight' =
         IF geo = Null \/ DayCached(inflight[1], geo)
         THEN Some([inflight[1] EXCEPT
                      !.geo = geo, !.pc = "put",
                      !.r = Enrich(EventOf(inflight[1]), weather_cache, geo, "throw")])
         ELSE Some([inflight[1] EXCEPT !.geo = geo, !.pc = "fetch"])
  /\ lastOp' = <<>>
  /\ UNCHANGED <<events, weather_cache, state, now, rendered, exported, pending>>

\* { timeout: 8000 }: the error callback after 8 s without a position.
GeoTimeout ==
  /\ inflight # Null
  /\ inflight[1].pc = "getLatLon"
  /\ inflight' = Some([inflight[1] EXCEPT !.geo = Null, !.pc = "put"])
  /\ lastOp' = <<>>
  /\ UNCHANGED <<events, weather_cache, state, now, rendered, exported, pending>>

\* The fetch settles: fetch(url) is called with no signal and no timeout, so
\* it settles when the provider answers or the connection fails.  The rest of
\* getDailyWeatherArrays and of weatherForEventTs follows: the cache written,
\* the reading picked.
FetchAnswers ==
  /\ inflight # Null
  /\ inflight[1].pc = "fetch"
  /\ \E outcome \in FetchOutcomes :
       \E r \in {Enrich(EventOf(inflight[1]), weather_cache, inflight[1].geo, outcome)} :
         /\ inflight' = Some([inflight[1] EXCEPT !.r = r, !.pc = "put"])
         /\ weather_cache' = r.cache
  /\ lastOp' = <<>>
  /\ UNCHANGED <<events, state, now, rendered, exported, pending>>

\* addEvent's put: the event with the reading, if the lookup gave one.
PutEvent ==
  /\ inflight # Null
  /\ inflight[1].pc = "put"
  /\ events' = addEventPut(events, inflight[1].r, inflight[1].id).events
  /\ lastOp' = <<addEventPut(events, inflight[1].r, inflight[1].id).call>>
  /\ inflight' = Some([inflight[1] EXCEPT !.pc = "renderCycle"])
  /\ UNCHANGED <<weather_cache, state, now, rendered, exported, pending>>

\* addEvent's renderCycle, which ends the call.
RenderAfterPut ==
  /\ inflight # Null
  /\ inflight[1].pc = "renderCycle"
  /\ \E r \in {renderCycle(events, state, now)} :
       /\ state' = r.state
       /\ rendered' = r.rendered
  /\ inflight' = Null
  /\ UNCHANGED <<events, weather_cache, now, exported, pending, lastOp>>

NextAppend ==
  \/ Tick
  \/ StartAppend({"wake"}, MaxEvents)
  \/ GeoAnswers
  \/ GeoTimeout
  \/ FetchAnswers
  \/ PutEvent
  \/ RenderAfterPut

\* The page's own steps are taken; the providers owe nothing.
SpecAppend ==
  Init /\ [][NextAppend]_vars /\ WF_vars(GeoTimeout) /\ WF_vars(PutEvent)

----------------------------------------------------------------------------
(* The reading picked from a cached day.  importJSON stores weather_cache    *)
(* records as the file has them, so a cached day can hold any hours, in any  *)
(* order, and samples that are not numbers.  The page starts on a cache an   *)
(* import has left and the wake button is pressed with the location granted: *)
(* the day is cached, so no fetch is made.                                    *)

\* The hours arrays: up to MaxHours timestamps, in any order, repeats allowed.
HourSeqs == UNION {[1..n -> 0..MaxTime] : n \in 0..MaxHours}

\* The samples of a day with the hours `hours`: all numeric (gap 0), or the
\* temperature or the humidity at index gap not a number.  A numeric sample
\* tells its index.
SeriesOf(hours, gap, lacking) ==
  [hours |-> hours,
   temps |-> [i \in 1..Len(hours) |->
                IF i = gap /\ lacking = "temp" THEN Null ELSE Some(10 + i)],
   hums |-> [i \in 1..Len(hours) |->
               IF i = gap /\ lacking = "hum" THEN Null ELSE Some(50 + i)]]

SeriesRecords ==
  {[key |-> CacheKey(ymd(t), p.lat, p.lon), dateKey |-> ymd(t), lat |-> p.lat, lon |-> p.lon,
    hours |-> SeriesOf(hours, x[1], x[2]).hours,
    temps |-> SeriesOf(hours, x[1], x[2]).temps,
    hums |-> SeriesOf(hours, x[1], x[2]).hums] :
     t \in Times, p \in {getLatLon(g)[1] : g \in GeoOutcomes \ {Null}},
     hours \in HourSeqs,
     x \in {<<0, "temp">>} \cup ((1..MaxHours) \X {"temp", "hum"})}

InitNearest ==
  /\ events = {}
  /\ weather_cache \in {{r} : r \in SeriesRecords}
  /\ now = 1
  /\ state = [currentCycleIdx |-> 0, cycles |-> <<VirtualNow(1)>>]
  /\ rendered = [card |-> Some(VirtualNow(1)), items |-> <<>>,
                 stats |-> calcCycleStats({}, VirtualNow(1), 1)]
  /\ exported = Null
  /\ pending = 0
  /\ inflight = Null
  /\ lastOp = <<>>

\* The location granted; a fetch, were one made, would fail.
Granted == {[geo |-> g, outcome |-> "throw"] : g \in GeoOutcomes \ {Null}}

NextNearest ==
  \/ Tick
  \/ QuickAdd({"wake"}, Granted, MaxEnriched)

SpecNearest == InitNearest /\ [][NextNearest]_vars

----------------------------------------------------------------------------
\* The numeric prompts, answered with texts of every kind: cancelled, empty,
\* blank, letters only, one to four digits, leading zeros, padded digits with
\* a separator.
Answers ==
  {Null} \cup
  {Some(t) : t \in {<<>>, <<" ">>, <<"7">>, <<"9", "5">>, <<"1", "0", "0", "0">>,
                    <<"a", "b">>, <<"0", "0", "7">>, <<" ", "1", ".", "5", " ">>}}

\* The prompted events a run stores.
MaxPrompted == 1

NextInput ==
  \/ Tick
  \/ QuickPrompted(PromptedTypes, Answers, MaxPrompted)
  \/ EditPrompted(PromptedTypes, Answers)

SpecInput == Init /\ [][NextInput]_vars

----------------------------------------------------------------------------
\* The sleep buttons, click by click: a handler is suspended at addEvent's
\* `await weatherForEventTs` while further clicks are handled; nothing
\* disables a button while a handler is suspended.  inflight holds the
\* suspended calls in the order they were made.

\* The handlers suspended at once, and the boundary events a run stores.
MaxInflight == 2
MaxBoundaries == 3

\* uuid(): an id no stored event and no suspended call has.
UnusedIds(cap) == (1..cap) \ (Ids(events) \cup {inflight[k].id : k \in 1..Len(inflight)})

\* A click on btn-now-start (type sleep_start, refused in a NIGHT) or on
\* btn-now-end (type sleep_end, refused otherwise): the guard on the store as
\* it is now, then `ts = nowMs()` and addEvent up to its first await.
SleepClick(type, cap) ==
  \E st \in {refreshCycles(events, state, now)} :
    /\ state' = st
    /\ lastOp' = <<>>
    /\ IF isCurrentlyInNightCycle(st.cycles, now) = (type = "sleep_start")
       THEN UNCHANGED inflight
       ELSE /\ Len(inflight) < MaxInflight
            /\ Cardinality(events) + Len(inflight) < cap
            /\ \E id \in UnusedIds(cap) :
                 inflight' = Append(inflight,
                                    [type |-> type, ts |-> now, id |-> id, pc |-> "put",
                                     geo |-> Null,
                                     r |-> Enrich([type |-> type, ts |-> now,
                                                   weather |-> Null, amount |-> Null,
                                                   level |-> Null, duration |-> Null],
                                                  weather_cache, Null, "throw")])
    /\ UNCHANGED <<events, weather_cache, now, rendered, exported, pending>>

SleepStartClick(cap) == SleepClick("sleep_start", cap)
SleepEndClick(cap) == SleepClick("sleep_end", cap)

\* The lookup of a suspended call settles (in any order): its put and its
\* renderCycle.
SettleAppend ==
  \E k \in 1..Len(inflight) :
    \E a \in {addEventPut(events, inflight[k].r, inflight[k].id)} :
      \E r \in {renderCycle(a.events, state, now)} :
        /\ events' = a.events
        /\ state' = r.state
        /\ rendered' = r.rendered
        /\ lastOp' = <<a.call>>
        /\ inflight' = [j \in 1..(Len(inflight) - 1) |->
                         IF j < k THEN inflight[j] ELSE inflight[j + 1]]
        /\ UNCHANGED <<weather_cache, now, exported, pending>>

NextSleep ==
  \/ Tick
  \/ SleepStartClick(MaxBoundaries)
  \/ SleepEndClick(MaxBoundaries)
  \/ SettleAppend

SpecSleep == Init /\ [][NextSleep]_vars

----------------------------------------------------------------------------
\* The urinate button.  Its times are in units of the clock: the window of
\* hasRecentWakeEvent (10 minutes) and the offset of the wake event it adds
\* (1 second, shorter than the window).

WakeWindow == 2
Second == 1

\* The clock of a night, and the events a night stores.
MaxClock == 4
MaxNightEvents == 4

ClockTick ==
  /\ now < MaxClock
  /\ now' = now + 1
  /\ lastOp' = <<>>
  /\ UNCHANGED <<events, weather_cache, state, rendered, exported, pending, inflight>>

\* hasRecentWakeEvent that takes any wake event up to now, however old.
hasRecentWakeEventAnyAge(store, t) ==
  \E e \in store : e.type = "wake" /\ e.ts <= t

\* hasRecentWakeEvent(10): a wake event in the by_ts range
\* IDBKeyRange.bound(currentTime - 10 min, currentTime).
hasRecentWakeEvent(store, t) ==
  \E e \in store : e.type = "wake" /\ t - WakeWindow <= e.ts /\ e.ts <= t

\* data-action="urinate": in a night without a recent wake event, a wake
\* event one second before, then the urinate event; each addEvent ends with
\* its renderCycle.
QuickUrinate(cap) ==
  /\ \E st \in {refreshCycles(events, state, now)} :
       \E wakes \in {isCurrentlyInNightCycle(st.cycles, now)
                      /\ ~hasRecentWakeEvent(events, now)} :
         /\ Cardinality(events) + (IF wakes THEN 2 ELSE 1) <= cap
         /\ \E idw \in FreshIds(cap), id \in FreshIds(cap) :
              /\ idw # id
              /\ \E w \in {IF wakes
                            THEN addEvent(events, weather_cache,
                                          [type |-> "wake", ts |-> now - Second,
                                           weather |-> Null, amount |-> Null,
                                           level |-> Null, duration |-> Null],
                                          idw, Null, "throw")
                            ELSE [events |-> events, cache |-> weather_cache]} :
                   \E rw \in {IF wakes THEN renderCycle(w.events, st, now).state ELSE st} :
                     \E a \in {addEvent(w.events, w.cache,
                                        [type |-> "urinate", ts |-> now,
                                         weather |-> Null, amount |-> Null,
                                         level |-> Null, duration |-> Null],
                                        id, Null, "throw")} :
                       \E r \in {renderCycle(a.events, rw, now)} :
                         /\ events' = a.events
                         /\ weather_cache' = a.cache
                         /\ state' = r.state
                         /\ rendered' = r.rendered
                         /\ lastOp' = IF wakes THEN <<w.call, a.call>> ELSE <<a.call>>
  /\ UNCHANGED <<now, exported, pending, inflight>>

\* The files imported before the button is used: a night that began at the
\* first instant, with or without a wake event then, or less.
NightFiles ==
  {[events |-> recs, weather_cache |-> {}] :
     recs \in SUBSET {LogRecord(1, "sleep_start", 1), LogRecord(2, "wake", 1)}}

NextNight ==
  \/ ClockTick
  \/ QuickUrinate(MaxNightEvents)
  \/ \E data \in NightFiles : ImportJSON(data)

SpecNight == Init /\ [][NextNight]_vars

----------------------------------------------------------------------------
(* Properties of the cycle builder, checked under SpecBuild *)

Built == state.cycles # <<>>

\* C1: the cycles of any log are ordered and contiguous: each cycle but the
\* last ends at the timestamp the next one starts at, and the last is open
\* (endTs = null).
C1_Contiguous ==
  Built =>
    /\ \A i \in 1..(Len(state.cycles) - 1) :
         /\ state.cycles[i].endTs # Null
         /\ state.cycles[i].endTs = state.cycles[i + 1].startTs
    /\ state.cycles[Len(state.cycles)].endTs = Null

\* A log of sleep_start and sleep_end only, starting with sleep_start, the two
\* types alternating at strictly increasing timestamps.
Alternating(log) ==
  /\ Len(log) >= 1
  /\ log[1].type = "sleep_start"
  /\ \A i \in 1..Len(log) : log[i].type \in {"sleep_start", "sleep_end"}
  /\ \A i \in 1..(Len(log) - 1) :
       log[i].type # log[i + 1].type /\ log[i].ts < log[i + 1].ts

\* C2: a strictly alternating log sleep_start, sleep_end, sleep_start, ...
\* yields one cycle per event: NIGHT from a sleep_start, DAY from a sleep_end,
\* each running to the next event's timestamp and the last one open.
C2_AlternatingLog ==
  LET log == getAllEvents(events)
  IN Built /\ Alternating(log) =>
       /\ Len(state.cycles) = Len(log)
       /\ \A i \in 1..Len(log) :
            /\ Len(state.cycles) >= i
            /\ state.cycles[i].type =
                 (IF log[i].type = "sleep_start" THEN "NIGHT" ELSE "DAY")
            /\ state.cycles[i].startTs = Some(log[i].ts)
            /\ state.cycles[i].endTs =
                 (IF i < Len(log) THEN Some(log[i + 1].ts) ELSE Null)

\* C3: for the log [sleep_start@T1, sleep_start@T2], T1 < T2, the first NIGHT
\* cycle runs from T1 to T2 with no end event, and a NIGHT starting at T2
\* follows it.
C3_SecondSleepStart ==
  LET log == getAllEvents(events)
  IN Built /\ Len(log) = 2
       /\ log[1].type = "sleep_start" /\ log[2].type = "sleep_start"
       /\ log[1].ts < log[2].ts =>
       LET N == {i \in 1..Len(state.cycles) : state.cycles[i].type = "NIGHT"}
           i == Min(N)
       IN /\ N # {}
          /\ state.cycles[i].startTs = Some(log[1].ts)
          /\ state.cycles[i].endTs = Some(log[2].ts)
          /\ state.cycles[i].endEvent = Null
          /\ i < Len(state.cycles)
          /\ state.cycles[i + 1].type = "NIGHT"
          /\ state.cycles[i + 1].startTs = Some(log[2].ts)

\* C4: with no events stored the builder returns exactly one cycle: id
\* 'virtual-now', type DAY, startTs the current time, endTs null, no boundary
\* events.
C4_EmptyLog ==
  Built /\ events = {} =>
    state.cycles = <<[id |-> "virtual-now", type |-> "DAY", startTs |-> Some(now),
                      endTs |-> Null, startEvent |-> Null, endEvent |-> Null]>>

C4_Witness == Built /\ events = {} /\ now > 1

----------------------------------------------------------------------------
(* Properties of the event store and the view, checked under Spec *)

\* C5: after any appends, updates, deletes and imports no two stored events
\* share an id, and every stored event's dateKey is the calendar day of its ts.
C5_StoreKeys ==
  /\ \A e, f \in events : e.id = f.id => e = f
  /\ \A e \in events :
       e.dateKey * DayLen <= e.ts /\ e.ts < (e.dateKey + 1) * DayLen

\* C9: once a handler has finished, the cached cycle list is the builder's
\* result on the store's events at some time up to now, and the current index
\* lies within the list.
C9_CyclesFresh ==
  pending = 0 =>
    /\ \E t \in 0..now : state.cycles = buildCyclesFromEvents(getAllEvents(events), t)
    /\ 0 <= state.currentCycleIdx
    /\ state.currentCycleIdx <= Len(state.cycles) - 1

\* A store write has just run and the list it left has several cycles.
C9_Witness ==
  /\ pending = 0
  /\ lastOp # <<>>
  /\ events # {}
  /\ Len(state.cycles) >= 3

\* A step that may be a navigation button's: none of them writes the store,
\* reads the clock forward or makes a store call.
NavigationStep == events' = events /\ now' = now /\ lastOp' = <<>>

\* C10: Prev leaves the index at max(0, idx-1), Next at min(len-1, idx+1) and
\* Today at len-1, len being the length of the list the step ends with.
C10_Navigation ==
  [][NavigationStep =>
       /\ state'.currentCycleIdx = Max({0, state.currentCycleIdx - 1}) \/ ~Prev
       /\ state'.currentCycleIdx =
            Min({Len(state'.cycles) - 1, state.currentCycleIdx + 1}) \/ ~NextCycle
       /\ state'.currentCycleIdx = Len(state'.cycles) - 1 \/ ~Today]_vars

\* The view stands on the middle one of three cycles, where only a navigation
\* button can have put it.
C10_Witness == Len(state.cycles) >= 3 /\ state.currentCycleIdx = 1

----------------------------------------------------------------------------
(* Property of updateEvent on a deleted id, checked under SpecAsync *)

\* C6: updateEvent on an id the store does not hold fails and creates no event.
C6_UpdateAbsentFails ==
  \A k \in 1..Len(lastOp) :
    lastOp[k].fn = "updateEvent" /\ ~lastOp[k].present =>
      lastOp[k].id \notin Ids(events)

----------------------------------------------------------------------------
(* Properties of the weather enrichment, checked under SpecWeather *)

StoredEvent(id) == CHOOSE e \in events : e.id = id

\* C7: an append or update of a sleep_start, sleep_end or wake event whose
\* weather lookup fails still stores the event, and stores it without weather.
C7_FailedLookupNoWeather ==
  \A k \in 1..Len(lastOp) :
    /\ lastOp[k].fn \in {"addEvent", "updateEvent"}
    /\ lastOp[k].lookup \in {"no_location", "fetch_failed", "no_sample"}
    => /\ lastOp[k].id \in Ids(events)
       /\ StoredEvent(lastOp[k].id).weather = Null

\* The indices of the samples of hours nearest to ts.
NearestIdx(hours, ts) ==
  {i \in 1..Len(hours) : \A j \in 1..Len(hours) : Abs(hours[i] - ts) <= Abs(hours[j] - ts)}

\* The day records of the cache that cover ts.
RecordsOfDay(ts) ==
  {r \in weather_cache : r.dateKey * DayLen <= ts /\ ts < (r.dateKey + 1) * DayLen}

----------------------------------------------------------------------------
(* Statistics of a cycle *)

\* The card on the page is the one renderCycle builds from the store now.
CardFresh ==
  /\ rendered.card # Null
  /\ rendered = renderCycle(events, state, now).rendered

\* The stored events whose ts lies in the span of the cycle c, the open cycle
\* ending now.
InSpan(c) ==
  {e \in events : /\ c.startTs[1] <= e.ts
                  /\ e.ts <= (IF c.endTs # Null THEN c.endTs[1] ELSE now)}

OfType(S, type) == {e \in S : e.type = type}

\* C11: the statistics of a NIGHT cycle carry the number of wake events in its
\* span and neither a food count nor an exercised flag; those of a DAY cycle
\* carry the number of food events and whether an exercise event lies in its
\* span, and no wake count.
C11_StatsByCycleType ==
  CardFresh =>
    /\ rendered.card[1].type = "NIGHT" =>
         /\ rendered.stats[1].wake
              = Some(Cardinality(OfType(InSpan(rendered.card[1]), "wake")))
         /\ rendered.stats[1].foodCnt = Null
         /\ rendered.stats[1].exercised = Null
    /\ rendered.card[1].type = "DAY" =>
         /\ rendered.stats[1].wake = Null
         /\ rendered.stats[1].foodCnt
              = Some(Cardinality(OfType(InSpan(rendered.card[1]), "food")))
         /\ rendered.stats[1].exercised
              = Some(OfType(InSpan(rendered.card[1]), "exercise") # {})

\* A DAY card over a wake event and an exercise event.
C11_Witness ==
  /\ CardFresh
  /\ rendered.card[1].type = "DAY"
  /\ \A type \in {"wake", "exercise"} : OfType(InSpan(rendered.card[1]), type) # {}

\* The sum of the amounts of a set of events.
RECURSIVE SumAmount(_)
SumAmount(S) ==
  IF S = {} THEN 0
  ELSE LET e == CHOOSE x \in S : TRUE IN e.amount[1] + SumAmount(S \ {e})

\* C12: waterMl of the shown cycle is the sum of amount over the stored water
\* events with a numeric amount in the cycle's span (up to now for the open
\* cycle); no other event adds to it.
C12_WaterMl ==
  CardFresh =>
    rendered.stats[1].waterMl
      = SumAmount({e \in OfType(InSpan(rendered.card[1]), "water") : IsNumber(e.amount)})

\* A card over water events of 510 and 700 and an isotonic event: 1210.
C12_Witness ==
  /\ CardFresh
  /\ rendered.stats[1].waterMl = 1210
  /\ OfType(InSpan(rendered.card[1]), "isotonic") # {}

----------------------------------------------------------------------------
(* Export and import *)

\* The cycles as (type, startTs, endTs).
Boundaries(cycles) ==
  [i \in 1..Len(cycles) |-> <<cycles[i].type, cycles[i].startTs, cycles[i].endTs>>]

\* C13: importing an exported file into an empty store gives back the events
\* the store held at the export, field by field, and the same cycle types and
\* boundaries.
C13_RoundTrip ==
  [][(events = {} /\ exported # Null /\ lastOp' = <<>> /\ events' # {}) =>
       /\ events' = exported[1].store
       /\ Boundaries(buildCyclesFromEvents(getAllEvents(events'), now))
            = Boundaries(buildCyclesFromEvents(getAllEvents(exported[1].store), now))]_vars

----------------------------------------------------------------------------
(* deleteEvent *)

\* C14: a handler's single deleteEvent(id) takes the event with that id out of
\* the store and leaves every other event as it was; with the id absent the
\* store is left as it is (so a second delete of the same id changes nothing).
C14_DeleteExactlyOne ==
  [][(Len(lastOp') = 1 /\ lastOp'[1].fn = "deleteEvent") =>
       /\ lastOp'[1].id \notin Ids(events')
       /\ {e \in events : e.id # lastOp'[1].id} \subseteq events'
       /\ events' \subseteq events
       /\ (~lastOp'[1].present => events' = events)]_vars

\* An event deleted a second time from a list not yet rebuilt, another event
\* of the same day still stored.
C14_Witness ==
  /\ Len(lastOp) = 1
  /\ lastOp[1].fn = "deleteEvent"
  /\ ~lastOp[1].present
  /\ pending > 0
  /\ events # {}

----------------------------------------------------------------------------
(* Further properties of the cycle builder, checked under SpecBuild *)

\* C15: on a non-empty log the builder's cycles, taken as (type, startTs,
\* endTs), are the same whenever it is called: the list built at any clock
\* value agrees position by position with the list refreshCycles has built.
C15_RebuildAgrees ==
  Built /\ events # {} =>
    \A t \in 0..MaxTs :
      Boundaries(buildCyclesFromEvents(getAllEvents(events), t)) = Boundaries(state.cycles)

\* A log of several cycles, rebuilt at clock values other than the first.
C15_Witness == Built /\ Len(state.cycles) >= 3 /\ now > 1 /\ events # {}

\* The stored sleep_start and sleep_end events.
BoundaryEvents == {e \in events : e.type \in {"sleep_start", "sleep_end"}}

\* C16: the first cycle of a log with a boundary event starts at the earliest
\* boundary event's timestamp; a log with events but no boundary event gives a
\* single cycle starting at its first event's timestamp.
C16_FirstCycleStart ==
  Built /\ events # {} =>
    IF BoundaryEvents # {}
    THEN state.cycles[1].startTs = Some(Min({e.ts : e \in BoundaryEvents}))
    ELSE /\ Len(state.cycles) = 1
         /\ state.cycles[1].startTs = Some(getAllEvents(events)[1].ts)

\* C17: events that are neither sleep_start nor sleep_end never change the
\* cycles of a log with a boundary event: the cycles are, as (type, startTs,
\* endTs), those of the log with every such event removed.
C17_OnlyBoundariesCount ==
  Built /\ BoundaryEvents # {} =>
    Boundaries(state.cycles)
      = Boundaries(buildCyclesFromEvents(getAllEvents(BoundaryEvents), now))

\* A wake event stored inside a NIGHT between a sleep_start and a sleep_end.
C17_Witness ==
  /\ Built
  /\ \E a, w, b \in events :
       /\ a.type = "sleep_start" /\ w.type = "wake" /\ b.type = "sleep_end"
       /\ a.ts < w.ts /\ w.ts < b.ts

\* The scan's variables when it reaches the k-th event of the log.
ScanBefore(log, k) == Scan(Seed(log), SubSeq(log, 1, k - 1), 1)

\* The positions of the log where the scan meets a sleep_end in phase DAY.
StrayEnds(log) ==
  {k \in 1..Len(log) : log[k].type = "sleep_end" /\ ScanBefore(log, k).phase = "DAY"}

----------------------------------------------------------------------------
(* The weather cache, checked under SpecWeather *)

\* The cache holds a record for the key whose arrays are not empty.
CachedNonEmpty(key) ==
  \E r \in weather_cache :
    r.key = key /\ Len(r.hours) > 0 /\ Len(r.temps) > 0 /\ Len(r.hums) > 0

\* The positions getLatLon can return.
Positions == {getLatLon(g)[1] : g \in GeoOutcomes \ {Null}}

\* C19: a call of getDailyWeatherArrays fetches exactly when the cache holds
\* no record with non-empty arrays for its key; with such a record cached the
\* call leaves the cache as it is, and a cached record with empty arrays is
\* fetched again and overwritten.
C19_FetchIffNoData ==
  \A t \in Times, p \in Positions, outcome \in FetchOutcomes :
    /\ getDailyWeatherArrays(weather_cache, t, p.lat, p.lon, outcome).fetched
         <=> ~CachedNonEmpty(CacheKey(ymd(t), p.lat, p.lon))
    /\ CachedNonEmpty(CacheKey(ymd(t), p.lat, p.lon)) =>
         getDailyWeatherArrays(weather_cache, t, p.lat, p.lon, outcome).cache = weather_cache

----------------------------------------------------------------------------
(* addEvent and the providers, checked under SpecAppend *)

\* C20: every addEvent call ends with its event stored, whatever the location
\* and weather providers do, not answering included.
C20_AppendPersists ==
  \A id \in IdPool :
    (inflight # Null /\ inflight[1].id = id) ~> (id \in Ids(events))

----------------------------------------------------------------------------
(* The reading picked from a cached day, checked under SpecNearest *)

\* The reading the record owes an event at ts: none without hours; otherwise
\* the sample at the lowest index nearest to ts, or none when that sample's
\* temperature or humidity is not a number.
ReadingOwed(rec, ts) ==
  IF Len(rec.hours) = 0 THEN Null
  ELSE IF At(rec.temps, Min(NearestIdx(rec.hours, ts))) = Null
          \/ At(rec.hums, Min(NearestIdx(rec.hours, ts))) = Null
  THEN Null
  ELSE Some([temp |-> rec.temps[Min(NearestIdx(rec.hours, ts))][1],
             hum |-> rec.hums[Min(NearestIdx(rec.hours, ts))][1]])

\* The temp and hum of a stored reading.
TempHum(w) == IF w = Null THEN Null ELSE Some([temp |-> w[1].temp, hum |-> w[1].hum])

\* C21: nearestWeatherAtTs gives, for every cached day and every ts, the
\* temp/hum at the lowest index whose hour is nearest to ts, null when the
\* record has no hours, and null when the sample there is not numeric; and an
\* event added from a cached day carries exactly that reading.
C21_NearestReading ==
  /\ \A rec \in weather_cache, ts \in 0..MaxTime :
       nearestWeatherAtTs(Some(rec), ts) = ReadingOwed(rec, ts)
  /\ \A k \in 1..Len(lastOp) :
       lastOp[k].fn = "addEvent" /\ lastOp[k].lookup \in {"ok", "no_sample"} =>
         \A rec \in RecordsOfDay(StoredEvent(lastOp[k].id).ts) :
           TempHum(StoredEvent(lastOp[k].id).weather)
             = ReadingOwed(rec, StoredEvent(lastOp[k].id).ts)

\* An event added from a day whose nearest hour, one of two at the same
\* distance, lacks a numeric sample while the other has one: no reading.
C21_Witness ==
  /\ Len(lastOp) = 1
  /\ lastOp[1].fn = "addEvent"
  /\ lastOp[1].lookup = "no_sample"
  /\ \E rec \in RecordsOfDay(StoredEvent(lastOp[1].id).ts) :
       /\ Cardinality(NearestIdx(rec.hours, StoredEvent(lastOp[1].id).ts)) = 2
       /\ \E i \in 1..Len(rec.hours) : rec.temps[i] # Null /\ rec.hums[i] # Null

----------------------------------------------------------------------------
(* addEvent and the other events *)

\* The handler of the step has made store calls, every one an addEvent.
Appended(calls) ==
  /\ calls # <<>>
  /\ \A k \in 1..Len(calls) : calls[k].fn = "addEvent"

\* C22: an append leaves every event stored before it as it was, id and
\* fields, and the store holds one more event for each addEvent call.
C22_AppendFrame ==
  [][Appended(lastOp') =>
       /\ events \subseteq events'
       /\ Cardinality(events') = Cardinality(events) + Len(lastOp')]_vars

\* An append onto a store that already holds an event of the same timestamp.
C22_Witness ==
  /\ Appended(lastOp)
  /\ \E e, f \in events : e.id # f.id /\ e.ts = f.ts /\ lastOp[1].id = f.id

----------------------------------------------------------------------------
(* Properties of the numeric prompts, checked under SpecInput *)

\* The digits of a text, and the number they write when there are any.
DigitsIn(text) == {k \in DOMAIN text : text[k] \in DigitChars}
RECURSIVE Written(_, _)
Written(text, k) ==
  IF k = 0 THEN 0
  ELSE IF text[k] \in DigitChars
       THEN 10 * Written(text, k - 1) + DigitValue(text[k])
       ELSE Written(text, k - 1)

\* The answers the three prompts are meant to refuse.
Malformed(type) ==
  {a \in Answers \ {Null} :
     CASE type = "glicemia" -> Cardinality(DigitsIn(a[1])) \notin {2, 3}
       [] type = "sol" -> Written(a[1], Len(a[1])) < 10
       [] type = "isotonic" -> Written(a[1], Len(a[1])) < 100}

\* C23: a glicemia level that does not reduce to two or three digits, a sol
\* duration below 10 and an isotonic amount below 100 are refused on the add
\* path and on the edit path alike: the handler makes no store call and
\* the store is left as it was, the edited event and its ts included.
C23_MalformedRefused ==
  [][\A type \in PromptedTypes :
       (\/ QuickPrompted({type}, Malformed(type), MaxPrompted)
        \/ EditPrompted({type}, Malformed(type)))
         => /\ events' = events
            /\ \A k \in 1..Len(lastOp') : lastOp'[k].fn = "alert"]_vars

\* A refusal shown while the store holds a glicemia event whose time was
\* edited before.
C23_Witness ==
  /\ lastOp # <<>> /\ lastOp[1].fn = "alert"
  /\ \E e \in events : e.type = "glicemia" /\ e.level # Null /\ e.ts = MaxTime

----------------------------------------------------------------------------
(* Properties of the sleep buttons, checked under SpecSleep *)

\* The step stores a new event of the type through addEvent.
StoresNew(type) ==
  /\ Appended(lastOp')
  /\ \E e \in events' \ events : e.id = lastOp'[1].id /\ e.type = type

\* The latest cycle derived from a store at time t.
LatestCycle(store, t) ==
  LET cycles == buildCyclesFromEvents(getAllEvents(store), t)
  IN cycles[Len(cycles)]

\* C24: whatever the interleaving of the handlers, a sleep_start is never
\* stored while the latest cycle derived from the store is an open NIGHT, and
\* a sleep_end is never stored while it is a DAY.
C24_GuardsHold ==
  [][/\ StoresNew("sleep_start") =>
          ~(/\ LatestCycle(events, now).type = "NIGHT"
            /\ LatestCycle(events, now).endTs = Null)
     /\ StoresNew("sleep_end") => LatestCycle(events, now).type # "DAY"]_vars

----------------------------------------------------------------------------
(* Properties of the statistics range *)

\* `cycle.endTs ?? Date.now()`
UpperBound(cycle, t) == IF cycle.endTs # Null THEN cycle.endTs[1] ELSE t

\* C25: the range calcCycleStats queries for any derived cycle is well
\* formed, startTs <= endTs (now for the open cycle), also after a boundary
\* event's ts has been edited.
C25_RangeWellFormed ==
  \A k \in 1..Len(state.cycles) :
    state.cycles[k].startTs[1] <= UpperBound(state.cycles[k], now)

\* The event is in the list calcCycleStats returns for the cycle.
Listed(e, cycle) ==
  \E st \in {calcCycleStats(events, cycle, now)} :
    /\ st # Null
    /\ \E i \in 1..Len(st[1].events) : st[1].events[i].id = e.id

\* The event's ts lies strictly inside the cycle's span.
StrictlyInside(e, cycle) ==
  cycle.startTs[1] < e.ts /\ e.ts < UpperBound(cycle, now)

\* An event strictly inside a cycle's span is listed in that cycle's
\* statistics and in no other cycle's.
InsideOnce ==
  \A cycles \in {buildCyclesFromEvents(getAllEvents(events), now)} :
    \A e \in events, k \in 1..Len(cycles) :
      StrictlyInside(e, cycles[k]) =>
        /\ Listed(e, cycles[k])
        /\ \A j \in 1..Len(cycles) : j # k => ~Listed(e, cycles[j])

\* An event on the boundary two adjacent cycles share is listed in the
\* statistics of both.
BoundaryTwice ==
  \A cycles \in {buildCyclesFromEvents(getAllEvents(events), now)} :
    \A e \in events, k \in 1..(Len(cycles) - 1) :
      (cycles[k].endTs = Some(e.ts) /\ cycles[k + 1].startTs = Some(e.ts)) =>
        Listed(e, cycles[k]) /\ Listed(e, cycles[k + 1])

\* C26: the range being inclusive at both ends, an event strictly inside a
\* cycle's span is counted in that cycle only, and an event whose ts is the
\* boundary two adjacent cycles share is counted in both.
C26_InclusiveRange == InsideOnce /\ BoundaryTwice

----------------------------------------------------------------------------
(* Further properties of the cycle builder, checked under SpecBuild *)

\* C27: in the list buildCyclesFromEvents returns, the cycle after a DAY
\* cycle is a NIGHT cycle, so two adjacent cycles of one type are both NIGHT.
C27_NoDayAfterDay ==
  \A k \in 1..(Len(state.cycles) - 1) :
    state.cycles[k].type = "DAY" => state.cycles[k + 1].type = "NIGHT"

\* A list in which a closed DAY cycle is followed by a cycle, built from a log
\* with a sleep_end met while the phase is DAY.
C27_Witness ==
  /\ \E k \in 1..(Len(state.cycles) - 1) : state.cycles[k].type = "DAY"
  /\ StrayEnds(getAllEvents(events)) # {}

\* The type of an optional boundary event is one of the given types.
RefType(ref, types) == ref # Null /\ ref[1].type \in types

\* C28: in every cycle returned, a startEvent has ts = startTs and an
\* endEvent has ts = endTs; a NIGHT cycle starts with a sleep_start and ends
\* with a sleep_end or with no event; a closed DAY cycle ends with a
\* sleep_start and starts with a sleep_end or with no event; the open last
\* cycle has no endEvent.
C28_BoundaryRefs ==
  \A k \in 1..Len(state.cycles) :
    \E c \in {state.cycles[k]} :
      /\ c.startEvent # Null => Some(c.startEvent[1].ts) = c.startTs
      /\ c.endEvent # Null => Some(c.endEvent[1].ts) = c.endTs
      /\ c.type = "NIGHT" =>
           /\ RefType(c.startEvent, {"sleep_start"})
           /\ c.endEvent = Null \/ RefType(c.endEvent, {"sleep_end"})
      /\ (c.type = "DAY" /\ c.endTs # Null) =>
           /\ RefType(c.endEvent, {"sleep_start"})
           /\ c.startEvent = Null \/ RefType(c.startEvent, {"sleep_end"})
      /\ (k = Len(state.cycles) /\ c.endTs = Null) => c.endEvent = Null

\* A list holding a closed NIGHT without endEvent, a NIGHT closed by its
\* sleep_end and a closed DAY that starts with a sleep_end.
C28_Witness ==
  /\ \E k \in 1..Len(state.cycles) :
       /\ state.cycles[k].type = "NIGHT"
       /\ state.cycles[k].endTs # Null
       /\ state.cycles[k].endEvent = Null
  /\ \E k \in 1..Len(state.cycles) :
       /\ state.cycles[k].type = "DAY"
       /\ state.cycles[k].endTs # Null
       /\ RefType(state.cycles[k].startEvent, {"sleep_end"})

----------------------------------------------------------------------------
(* Properties of the urinate button, checked under SpecNight *)

\* The wake events of a store dated within the window before t.
RecentWakes(store, t) ==
  {e \in store : e.type = "wake" /\ e.ts \in (t - WakeWindow)..t}

\* The step is a run of the urinate handler: its last addEvent stored a
\* urinate event.
UrinateRan ==
  /\ Appended(lastOp')
  /\ \E e \in events' \ events :
       e.id = lastOp'[Len(lastOp')].id /\ e.type = "urinate"

\* C29: a run of the urinate button appends the urinate event, dated now.
\* In an open NIGHT the store then holds a wake event dated within the window
\* before the action, and a wake event dated one second before the action is
\* appended exactly when none was in the window; in a DAY only the urinate
\* event is appended.
C29_UrinateWakes ==
  [][UrinateRan =>
       /\ events \subseteq events'
       /\ \E u \in events' \ events : u.type = "urinate" /\ u.ts = now
       /\ (LatestCycle(events, now).type = "NIGHT"
             /\ LatestCycle(events, now).endTs = Null) =>
            /\ RecentWakes(events', now) # {}
            /\ IF RecentWakes(events, now) = {}
               THEN /\ Cardinality(events' \ events) = 2
                    /\ \E w \in events' \ events :
                         w.type = "wake" /\ w.ts = now - Second
               ELSE Cardinality(events' \ events) = 1
       /\ LatestCycle(events, now).type = "DAY" =>
            Cardinality(events' \ events) = 1]_vars

\* A run in a night whose only earlier wake event is older than the window:
\* a second wake event was appended with the urinate event.
C29_Witness ==
  /\ Len(lastOp) = 2
  /\ \E u \in events : u.type = "urinate" /\ u.id = lastOp[2].id /\ u.ts = now
  /\ \E w \in events : w.type = "wake" /\ w.ts < now - WakeWindow

====
